---- MODULE Spec2Model ----
(***************************************************************************)
(* Model of the MetalLB pool reconciler (PoolReconciler.Reconcile) and of  *)
(* the legacy configuration conversion layer (package conversion).        *)
(***************************************************************************)
EXTENDS Integers, Sequences, FiniteSets, TLC

(***************************************************************************)
(* Bounds of the model.                                                    *)
(***************************************************************************)
\* Reconcile cycles that may be started in one behaviour (caps the counters).
MaxCycles == 3

(***************************************************************************)
(* Strings.  Names that are only copied or compared for equality are TLA+  *)
(* strings.  Names that the code sorts (community aliases) are sequences   *)
(* of byte values, compared the way Go compares strings.                   *)
(***************************************************************************)
RECURSIVE StrLess(_, _)
StrLess(a, b) ==
    IF a = <<>> THEN b # <<>>
    ELSE IF b = <<>> THEN FALSE
    ELSE IF Head(a) # Head(b) THEN Head(a) < Head(b)
    ELSE StrLess(Tail(a), Tail(b))

\* The sorted slice s with x put in its place.
RECURSIVE InsertSorted(_, _)
InsertSorted(x, s) ==
    IF s = <<>> THEN <<x>>
    ELSE IF StrLess(x, Head(s)) THEN <<x>> \o s
    ELSE <<Head(s)>> \o InsertSorted(x, Tail(s))

\* sort.Strings: the slice s in ascending order.
SortStringsForgotten(s) == s

RECURSIVE SortStrings(_)
SortStrings(s) ==
    IF s = <<>> THEN <<>>
    ELSE InsertSorted(Head(s), SortStrings(Tail(s)))

\* The orders in which a range over a map with the keys S can visit them.
Orders(S) ==
    {o \in [1..Cardinality(S) -> S] : \A i, j \in DOMAIN o : i # j => o[i] # o[j]}

\* fmt.Sprintf("<prefix>%d", index): the prefix followed by the decimal index.
Sprintf(prefix, index) == <<prefix, index>>

(***************************************************************************)
(* Durations.  A time.Duration is a number of milliseconds here; a         *)
(* duration text is "" (empty), unparseable, or the text of a duration.    *)
(***************************************************************************)
Second == 1000
DefaultHoldTimeSeconds == 90
MinHoldTimeSeconds == 3

EmptyText == [kind |-> "empty", ms |-> 0]
BadText == [kind |-> "bad", ms |-> 0]
DurText(ms) == [kind |-> "dur", ms |-> ms]

\* time.ParseDuration
ParseDuration(s) ==
    IF s.kind = "dur" THEN [err |-> FALSE, d |-> s.ms]
    ELSE [err |-> TRUE, d |-> 0]

\* int(d.Seconds()): the whole seconds of d, truncated toward zero.
WholeSecondsFloored(d) == d \div Second

WholeSeconds(d) == IF d >= 0 THEN d \div Second ELSE -((-d) \div Second)

parseHoldTime(ht) ==
    IF ht.kind = "empty" THEN [err |-> FALSE, d |-> DefaultHoldTimeSeconds * Second]
    ELSE LET p == ParseDuration(ht)
             rounded == WholeSeconds(p.d) * Second
         IN  IF p.err THEN [err |-> TRUE, d |-> 0]
             ELSE IF rounded # 0 /\ rounded < MinHoldTimeSeconds * Second
                  THEN [err |-> TRUE, d |-> 0]
                  ELSE [err |-> FALSE, d |-> rounded]

parseKeepaliveTime(ka) ==
    LET p == ParseDuration(ka)
    IN  IF p.err THEN [err |-> TRUE, d |-> 0]
        ELSE [err |-> FALSE, d |-> WholeSeconds(p.d) * Second]

(***************************************************************************)
(* Legacy translation (internal/conversion/internal.go).                   *)
(***************************************************************************)
Layer2 == "layer2"
BGP == "bgp"

\* The name of a resource that has not been named yet.
NoName == Sprintf("", 0)

parsePeer(p) ==
    LET holdTime == parseHoldTime(p.HoldTime)
        res == [Name |-> NoName, ASN |-> p.ASN, HoldTime |-> holdTime.d,
                KeepaliveTime |-> 0]
    IN  IF holdTime.err THEN [err |-> TRUE, peer |-> res]
        ELSE IF p.KeepaliveTime.kind # "empty"
        THEN LET keepaliveTime == parseKeepaliveTime(p.KeepaliveTime)
             IN  IF keepaliveTime.err THEN [err |-> TRUE, peer |-> res]
                 ELSE [err |-> FALSE,
                       peer |-> [res EXCEPT !.KeepaliveTime = keepaliveTime.d]]
        ELSE [err |-> FALSE, peer |-> res]

peersFor(c) ==
    LET parsed == [i \in 1..Len(c.Peers) |-> parsePeer(c.Peers[i])]
    IN  IF \E i \in 1..Len(c.Peers) : parsed[i].err
        THEN [err |-> TRUE, res |-> <<>>]
        ELSE [err |-> FALSE,
              res |-> [i \in 1..Len(c.Peers) |->
                          [parsed[i].peer EXCEPT !.Name = Sprintf("peer", i)]]]

\* communitiesFor when the range over cf.BGPCommunities visits the keys in
\* the order given.
communitiesForRange(cf, order) ==
    IF DOMAIN cf.BGPCommunities = {} THEN <<>>
    ELSE LET sortedCommunities == SortStrings(order)
             communitiesAliases ==
                 [i \in 1..Len(sortedCommunities) |->
                     [Name |-> sortedCommunities[i],
                      Value |-> cf.BGPCommunities[sortedCommunities[i]]]]
         IN  <<[Name |-> "communities", Communities |-> communitiesAliases]>>

communitiesFor(cf) ==
    communitiesForRange(cf, CHOOSE o \in Orders(DOMAIN cf.BGPCommunities) : TRUE)

bfdProfileFor(c) ==
    [i \in 1..Len(c.BFDProfiles) |->
        [Name |-> c.BFDProfiles[i].Name,
         ReceiveInterval |-> c.BFDProfiles[i].ReceiveInterval,
         EchoMode |-> c.BFDProfiles[i].EchoMode,
         PassiveMode |-> c.BFDProfiles[i].PassiveMode]]

ipAddressPoolsFor(c) ==
    [i \in 1..Len(c.Pools) |->
        [Name |-> c.Pools[i].Name,
         Addresses |-> c.Pools[i].Addresses,
         AvoidBuggyIPs |-> (c.Pools[i].AvoidBuggyIPs = "true"),
         AutoAssign |-> c.Pools[i].AutoAssign]]

emptyBGPAdv(addressPoolName, index) ==
    [Name |-> Sprintf("bgpadvertisement", index),
     Communities |-> <<>>, AggregationLength |-> 0, AggregationLengthV6 |-> 0,
     LocalPref |-> 0, IPAddressPools |-> <<addressPoolName>>]

\* The loop of bgpAdvertisementsFor over c.Pools[k..], entered with the
\* advertisements emitted so far and the next index.
RECURSIVE bgpAdvertisementsLoopIndexPerPool(_, _, _, _)
bgpAdvertisementsLoopIndexPerPool(pools, k, res, index) ==
    IF k > Len(pools) THEN res
    ELSE LET ap == pools[k]
             n == Len(ap.BGPAdvertisements)
             explicit ==
                 [j \in 1..n |->
                     [Name |-> Sprintf("bgpadvertisement", j),
                      Communities |-> ap.BGPAdvertisements[j].Communities,
                      AggregationLength |-> ap.BGPAdvertisements[j].AggregationLength,
                      AggregationLengthV6 |-> ap.BGPAdvertisements[j].AggregationLengthV6,
                      LocalPref |-> ap.BGPAdvertisements[j].LocalPref,
                      IPAddressPools |-> <<ap.Name>>]]
         IN  IF n = 0 /\ ap.Protocol = BGP
             THEN bgpAdvertisementsLoopIndexPerPool(pools, k + 1,
                      res \o <<emptyBGPAdv(ap.Name, 1)>>, 1)
             ELSE bgpAdvertisementsLoopIndexPerPool(pools, k + 1, res \o explicit, 1)

RECURSIVE bgpAdvertisementsLoop(_, _, _, _)
bgpAdvertisementsLoop(pools, k, res, index) ==
    IF k > Len(pools) THEN res
    ELSE LET ap == pools[k]
             n == Len(ap.BGPAdvertisements)
             explicit ==
                 [j \in 1..n |->
                     [Name |-> Sprintf("bgpadvertisement", index + j - 1),
                      Communities |-> ap.BGPAdvertisements[j].Communities,
                      AggregationLength |-> ap.BGPAdvertisements[j].AggregationLength,
                      AggregationLengthV6 |-> ap.BGPAdvertisements[j].AggregationLengthV6,
                      LocalPref |-> ap.BGPAdvertisements[j].LocalPref,
                      IPAddressPools |-> <<ap.Name>>]]
         IN  IF n = 0 /\ ap.Protocol = BGP
             THEN bgpAdvertisementsLoop(pools, k + 1,
                      res \o <<emptyBGPAdv(ap.Name, index)>>, index + 1)
             ELSE bgpAdvertisementsLoop(pools, k + 1, res \o explicit, index + n)

bgpAdvertisementsFor(c) == bgpAdvertisementsLoop(c.Pools, 1, <<>>, 1)

RECURSIVE l2AdvertisementsLoop(_, _, _, _)
l2AdvertisementsLoop(pools, k, res, index) ==
    IF k > Len(pools) THEN res
    ELSE IF pools[k].Protocol = Layer2
    THEN l2AdvertisementsLoop(pools, k + 1,
             res \o <<[Name |-> Sprintf("l2advertisement", index),
                       IPAddressPools |-> <<pools[k].Name>>]>>, index + 1)
    ELSE l2AdvertisementsLoop(pools, k + 1, res, index)

l2AdvertisementsFor(c) == l2AdvertisementsLoop(c.Pools, 1, <<>>, 1)

(***************************************************************************)
(* Resource aggregation.  A mapping that may be unallocated (a nil map) is *)
(* a record [isNil, m].                                                    *)
(***************************************************************************)
NilMap == [isNil |-> TRUE, m |-> <<>>]

EmptyResources ==
    [Pools |-> <<>>, Peers |-> <<>>, BFDProfiles |-> <<>>, BGPAdvs |-> <<>>,
     L2Advs |-> <<>>, LegacyAddressPools |-> <<>>, Communities |-> <<>>,
     PasswordSecrets |-> NilMap, Nodes |-> <<>>, Namespaces |-> <<>>]

MergeSecrets(f, s) ==
    IF ~f.isNil /\ ~s.isNil
    THEN [isNil |-> FALSE,
          m |-> [k \in DOMAIN f.m \cup DOMAIN s.m |->
                    IF k \in DOMAIN s.m THEN s.m[k] ELSE f.m[k]]]
    ELSE f

addResourcesDedup(first, second) ==
    LET New(x) == \A i \in 1..Len(first.Pools) : first.Pools[i] # x
    IN  [Pools |-> first.Pools \o SelectSeq(second.Pools, New),
         Peers |-> first.Peers \o second.Peers,
         BFDProfiles |-> first.BFDProfiles \o second.BFDProfiles,
         BGPAdvs |-> first.BGPAdvs \o second.BGPAdvs,
         L2Advs |-> first.L2Advs \o second.L2Advs,
         LegacyAddressPools |-> first.LegacyAddressPools \o second.LegacyAddressPools,
         Communities |-> first.Communities \o second.Communities,
         PasswordSecrets |-> MergeSecrets(first.PasswordSecrets, second.PasswordSecrets),
         Nodes |-> first.Nodes \o second.Nodes,
         Namespaces |-> first.Namespaces \o second.Namespaces]

addResources(first, second) ==
    [Pools |-> first.Pools \o second.Pools,
     Peers |-> first.Peers \o second.Peers,
     BFDProfiles |-> first.BFDProfiles \o second.BFDProfiles,
     BGPAdvs |-> first.BGPAdvs \o second.BGPAdvs,
     L2Advs |-> first.L2Advs \o second.L2Advs,
     LegacyAddressPools |-> first.LegacyAddressPools \o second.LegacyAddressPools,
     Communities |-> first.Communities \o second.Communities,
     PasswordSecrets |-> MergeSecrets(first.PasswordSecrets, second.PasswordSecrets),
     Nodes |-> first.Nodes \o second.Nodes,
     Namespaces |-> first.Namespaces \o second.Namespaces]

(***************************************************************************)
(* The legacy configuration document and its translation.                  *)
(***************************************************************************)
EmptyConfigFile ==
    [Pools |-> <<>>, Peers |-> <<>>, BFDProfiles |-> <<>>, BGPCommunities |-> <<>>]

\* A ConfigMap: no data (the zero value), data that does not decode, or
\* data that decodes to the configFile cf.
ZeroConfigMap == [data |-> "none", cf |-> EmptyConfigFile]
MalformedConfigMap == [data |-> "malformed", cf |-> EmptyConfigFile]
ConfigMapOf(cf) == [data |-> "doc", cf |-> cf]

\* conversion.DecodeLegacyCM
DecodeLegacyCM(cm) ==
    IF cm.data = "none" THEN [err |-> FALSE, cf |-> EmptyConfigFile]
    ELSE IF cm.data = "malformed" THEN [err |-> TRUE, cf |-> EmptyConfigFile]
    ELSE [err |-> FALSE, cf |-> cm.cf]

\* conversion.ResourcesFor
ResourcesFor(cf) ==
    LET peers == peersFor(cf)
    IN  IF peers.err THEN [err |-> TRUE, res |-> EmptyResources]
        ELSE [err |-> FALSE,
              res |-> [EmptyResources EXCEPT
                          !.BFDProfiles = bfdProfileFor(cf),
                          !.Communities = communitiesFor(cf),
                          !.Peers = peers.res,
                          !.Pools = ipAddressPoolsFor(cf),
                          !.BGPAdvs = bgpAdvertisementsFor(cf),
                          !.L2Advs = l2AdvertisementsFor(cf)]]

\* conversion.AddLegacyResources
AddLegacyResources(first, second) == addResources(first, second)

(***************************************************************************)
(* The effective configuration.                                            *)
(***************************************************************************)
\* r.currentConfig before any configuration was adopted: a nil pointer.
NilConfig == [isNil |-> TRUE]

PoolNames(resources) ==
    [i \in 1..Len(resources.Pools) |-> resources.Pools[i].Name]
        \o [i \in 1..Len(resources.LegacyAddressPools) |->
               resources.LegacyAddressPools[i].Name]

\* toConfig: the builder and validator.  It rejects a resource set in which
\* two pools have the same name and renders every other one.
toConfig(resources) ==
    LET names == PoolNames(resources)
    IN  IF \E i, j \in 1..Len(names) : i # j /\ names[i] = names[j]
        THEN [err |-> TRUE, cfg |-> NilConfig]
        ELSE [err |-> FALSE,
              cfg |-> [isNil |-> FALSE,
                       Pools |-> [names |-> names,
                                  BGPAdvs |-> resources.BGPAdvs,
                                  L2Advs |-> resources.L2Advs,
                                  Communities |-> resources.Communities,
                                  Namespaces |-> resources.Namespaces],
                       Peers |-> resources.Peers,
                       BFDProfiles |-> resources.BFDProfiles]]

\* reflect.DeepEqual on two *config.Config
DeepEqualByIdentity(a, b) == FALSE

DeepEqual(a, b) == a = b

(***************************************************************************)
(* The resource store the reconciler reads: the four listed kinds and the  *)
(* legacy ConfigMap, which may not exist.                                  *)
(***************************************************************************)
PoolA ==
    [Name |-> "a", Addresses |-> <<"10.0.0.0/24">>, AvoidBuggyIPs |-> FALSE,
     AutoAssign |-> TRUE]

LegacyPool(name, protocol) ==
    [Name |-> name, Protocol |-> protocol, Addresses |-> <<"10.1.0.0/24">>,
     AvoidBuggyIPs |-> "unset", AutoAssign |-> TRUE, BGPAdvertisements |-> <<>>]

LegacyPeer(holdTime) ==
    [ASN |-> 64512, HoldTime |-> holdTime, KeepaliveTime |-> EmptyText]

\* A legacy document whose pool has the name of the store's pool.
DocA == [EmptyConfigFile EXCEPT !.Pools = <<LegacyPool("a", Layer2)>>]
\* A legacy document with a pool of its own, a peer and two communities.
DocB ==
    [EmptyConfigFile EXCEPT
        !.Pools = <<LegacyPool("b", BGP)>>,
        !.Peers = <<LegacyPeer(DurText(5 * Second))>>,
        !.BGPCommunities = (<<98>> :> 100) @@ (<<97>> :> 200)]
\* A legacy document whose peer has a hold time of two seconds.
DocBadHold == [EmptyConfigFile EXCEPT !.Peers = <<LegacyPeer(DurText(2 * Second))>>]

LegacyStates ==
    {[exists |-> FALSE, cm |-> ZeroConfigMap],
     [exists |-> TRUE, cm |-> MalformedConfigMap],
     [exists |-> TRUE, cm |-> ConfigMapOf(DocA)],
     [exists |-> TRUE, cm |-> ConfigMapOf(DocB)],
     [exists |-> TRUE, cm |-> ConfigMapOf(DocBadHold)]}

StoreStates ==
    [addressPools : {<<>>}, ipAddressPools : {<<>>, <<PoolA>>},
     communities : {<<>>}, namespaces : {<<"metallb-system">>},
     legacy : LegacyStates]

(***************************************************************************)
(* The reconciler.                                                         *)
(***************************************************************************)
Procs == {1, 2}
\* The invocations the caller serializes are those of one worker.
SerialProcs == {1}

SyncStateSuccess == "SyncStateSuccess"
SyncStateError == "SyncStateError"
SyncStateErrorNoRetry == "SyncStateErrorNoRetry"
SyncStateReprocessAll == "SyncStateReprocessAll"
SyncStates ==
    {SyncStateSuccess, SyncStateError, SyncStateErrorNoRetry, SyncStateReprocessAll}
\* SyncState is an integer type: the Handler can return a value that is none
\* of the four.
HandlerResults == SyncStates \cup {"SyncStateOther"}

VARIABLES
    store,          \* the content of the resource store
    currentConfig,  \* r.currentConfig
    updates,        \* the reconcile-attempt counter
    updateErrors,   \* the apply-error counter
    configStale,    \* the config-stale gauge
    configLoaded,   \* the config-loaded gauge
    pc,             \* where each invocation of Reconcile stands
    loc,            \* the local variables of each invocation
    lastApply,      \* the last finished invocation that called the Handler
    calc            \* a call of a conversion function: its arguments and result

vars ==
    <<store, currentConfig, updates, updateErrors, configStale, configLoaded,
      pc, loc, lastApply, calc>>

metrics == <<updates, updateErrors, configStale, configLoaded>>

\* The observable state an invocation finds when it is entered.
Observed ==
    [currentConfig |-> currentConfig, updates |-> updates,
     updateErrors |-> updateErrors, configStale |-> configStale,
     configLoaded |-> configLoaded]

IdleLocals ==
    [addressPools |-> <<>>, ipAddressPools |-> <<>>, communities |-> <<>>,
     namespaces |-> <<>>, getResult |-> "none", legacyConfig |-> ZeroConfigMap,
     cfg |-> NilConfig,
     res |-> SyncStateSuccess, ret |-> "nil", end |-> "none",
     handlerCalls |-> 0, forceReloads |-> 0, handlerArg |-> <<>>,
     pre |-> [currentConfig |-> NilConfig, updates |-> 0, updateErrors |-> 0,
              configStale |-> 0, configLoaded |-> 0]]

\* What an invocation has read from the store.
Fetched(l) ==
    [addressPools |-> l.addressPools, ipAddressPools |-> l.ipAddressPools,
     communities |-> l.communities, namespaces |-> l.namespaces,
     legacyConfig |-> l.legacyConfig]

NoApply ==
    [called |-> FALSE, res |-> SyncStateSuccess, fetched |-> Fetched(IdleLocals),
     arg |-> <<>>]

\* No conversion function is being exercised on its own.
NoCalc == [op |-> "none"]

Init ==
    /\ calc = NoCalc
    /\ store \in StoreStates
    /\ currentConfig = NilConfig
    /\ updates = 0
    /\ updateErrors = 0
    /\ configStale = 0
    /\ configLoaded = 0
    /\ pc = [p \in Procs |-> "idle"]
    /\ loc = [p \in Procs |-> IdleLocals]
    /\ lastApply = NoApply

\* The store changes under the reconciler at any time.
StoreChange ==
    /\ \E s \in StoreStates : s # store /\ store' = s
    /\ UNCHANGED <<currentConfig, metrics, pc, loc, lastApply>>

\* The invocation ends and returns ret to the caller.
Finish(p, l, ret, end) ==
    /\ loc' = [loc EXCEPT ![p] = [l EXCEPT !.ret = ret, !.end = end]]
    /\ pc' = [pc EXCEPT ![p] = "done"]

Goto(p, l, label) ==
    /\ loc' = [loc EXCEPT ![p] = l]
    /\ pc' = [pc EXCEPT ![p] = label]

\* Reconcile is entered: updates.Inc()
EnterWithoutCount(p) ==
    /\ pc[p] = "idle"
    /\ updates < MaxCycles
    /\ Goto(p, [IdleLocals EXCEPT !.pre = Observed], "listAddressPools")
    /\ UNCHANGED <<store, currentConfig, metrics, lastApply>>

Enter(p) ==
    /\ pc[p] = "idle"
    /\ updates < MaxCycles
    /\ updates' = updates + 1
    /\ Goto(p, [IdleLocals EXCEPT !.pre = Observed], "listAddressPools")
    /\ UNCHANGED <<store, currentConfig, updateErrors, configStale, configLoaded,
                   lastApply>>

\* One invocation at a time, as the caller is required to run them.
Start(p) ==
    /\ \A q \in Procs : pc[q] = "idle"
    /\ Enter(p)

ListAddressPools(p) ==
    /\ pc[p] = "listAddressPools"
    /\ \E ok \in BOOLEAN :
          IF ok
          THEN Goto(p, [loc[p] EXCEPT !.addressPools = store.addressPools],
                    "listIPAddressPools")
          ELSE Finish(p, loc[p], "err", "fetchError")
    /\ UNCHANGED <<store, currentConfig, metrics, lastApply>>

ListIPAddressPools(p) ==
    /\ pc[p] = "listIPAddressPools"
    /\ \E ok \in BOOLEAN :
          IF ok
          THEN Goto(p, [loc[p] EXCEPT !.ipAddressPools = store.ipAddressPools],
                    "listCommunities")
          ELSE Finish(p, loc[p], "err", "fetchError")
    /\ UNCHANGED <<store, currentConfig, metrics, lastApply>>

ListCommunities(p) ==
    /\ pc[p] = "listCommunities"
    /\ \E ok \in BOOLEAN :
          IF ok
          THEN Goto(p, [loc[p] EXCEPT !.communities = store.communities],
                    "listNamespaces")
          ELSE Finish(p, loc[p], "err", "fetchError")
    /\ UNCHANGED <<store, currentConfig, metrics, lastApply>>

ListNamespaces(p) ==
    /\ pc[p] = "listNamespaces"
    /\ \E ok \in BOOLEAN :
          IF ok
          THEN Goto(p, [loc[p] EXCEPT !.namespaces = store.namespaces], "getLegacy")
          ELSE Finish(p, loc[p], "err", "fetchError")
    /\ UNCHANGED <<store, currentConfig, metrics, lastApply>>

\* r.Get of the legacy ConfigMap: the object, NotFound, or another error.
GetResult(failed) ==
    IF failed THEN "error"
    ELSE IF store.legacy.exists THEN "found" ELSE "NotFound"

\* err != nil && !apierrors.IsNotFound(err)
GetAbortsOnAnyError(result) == result # "found"

GetAborts(result) == result = "error"

GetLegacy(p) ==
    /\ pc[p] = "getLegacy"
    /\ \E failed \in BOOLEAN :
          LET result == GetResult(failed)
              l == [loc[p] EXCEPT !.getResult = result]
          IN  IF GetAborts(result)
              THEN Finish(p, l, "err", "fetchError")
              ELSE Goto(p, [l EXCEPT !.legacyConfig =
                               IF result = "found" THEN store.legacy.cm
                               ELSE ZeroConfigMap],
                        "translate")
    /\ UNCHANGED <<store, currentConfig, metrics, lastApply>>

\* The resources listed from the store, before the legacy ones are added.
ListedResources(l) ==
    [EmptyResources EXCEPT
        !.Pools = l.ipAddressPools,
        !.LegacyAddressPools = l.addressPools,
        !.Communities = l.communities,
        !.Namespaces = l.namespaces]

\* toConfig failed: configStale.Set(1), and the error is not returned.
BuildFailedReturnsError(p) ==
    /\ configStale' = 1
    /\ Finish(p, loc[p], "err", "buildError")

BuildFailedStaleForgotten(p) ==
    /\ UNCHANGED configStale
    /\ Finish(p, loc[p], "nil", "buildError")

BuildFailed(p) ==
    /\ configStale' = 1
    /\ Finish(p, loc[p], "nil", "buildError")

\* DecodeLegacyCM, ResourcesFor, AddLegacyResources and toConfig: the
\* invocation's own computation on what it fetched.
Translate(p) ==
    /\ pc[p] = "translate"
    /\ LET legacyCF == DecodeLegacyCM(loc[p].legacyConfig)
           legacyResources == ResourcesFor(legacyCF.cf)
           resources == AddLegacyResources(ListedResources(loc[p]), legacyResources.res)
           built == toConfig(resources)
       IN  IF legacyCF.err
           THEN /\ Finish(p, loc[p], "err", "decodeError")
                /\ UNCHANGED configStale
           ELSE IF legacyResources.err
           THEN /\ Finish(p, loc[p], "err", "translateError")
                /\ UNCHANGED configStale
           ELSE IF built.err
           THEN BuildFailed(p)
           ELSE /\ Goto(p, [loc[p] EXCEPT !.cfg = built.cfg], "compare")
                /\ UNCHANGED configStale
    /\ UNCHANGED <<store, currentConfig, updates, updateErrors, configLoaded,
                   lastApply>>

\* reflect.DeepEqual(r.currentConfig, cfg)
Compare(p) ==
    /\ pc[p] = "compare"
    /\ IF DeepEqual(currentConfig, loc[p].cfg)
       THEN Finish(p, loc[p], "nil", "unchanged")
       ELSE Goto(p, loc[p], "handler")
    /\ UNCHANGED <<store, currentConfig, metrics, lastApply>>

\* res := r.Handler(r.Logger, cfg.Pools); any SyncState may come back.
Handler(p) ==
    /\ pc[p] = "handler"
    /\ \E res \in HandlerResults :
          Goto(p, [loc[p] EXCEPT !.res = res,
                                 !.handlerCalls = @ + 1,
                                 !.handlerArg = loc[p].cfg.Pools],
               "switch")
    /\ UNCHANGED <<store, currentConfig, metrics, lastApply>>

\* switch res: the case taken.
SwitchCaseReloadSkipped(res) ==
    CASE res = SyncStateError -> "retry"
      [] res = SyncStateReprocessAll -> "adopt"
      [] res = SyncStateErrorNoRetry -> "noRetry"
      [] OTHER -> "adopt"

SwitchCaseNoRetryFallsThrough(res) ==
    CASE res = SyncStateError -> "retry"
      [] res = SyncStateReprocessAll -> "reload"
      [] res = SyncStateErrorNoRetry -> "adopt"
      [] OTHER -> "adopt"

SwitchCase(res) ==
    CASE res = SyncStateError -> "retry"
      [] res = SyncStateReprocessAll -> "reload"
      [] res = SyncStateErrorNoRetry -> "noRetry"
      [] OTHER -> "adopt"

\* What the two error cases return.
ErrorReturnAlwaysNil(case) == "nil"

ErrorReturnAlwaysRetry(case) == "errRetry"

ErrorReturn(case) == IF case = "retry" THEN "errRetry" ELSE "nil"

SwitchAdoptsOnError(p) ==
    /\ pc[p] = "switch"
    /\ LET case == SwitchCase(loc[p].res)
       IN  IF case \in {"retry", "noRetry"}
           THEN /\ updateErrors' = updateErrors + 1
                /\ configStale' = 1
                /\ currentConfig' = loc[p].cfg
                /\ Finish(p, loc[p], ErrorReturn(case),
                          IF case = "retry" THEN "errorRetry" ELSE "errorNoRetry")
           ELSE /\ Goto(p, loc[p], IF case = "reload" THEN "forceReload" ELSE "adopt")
                /\ UNCHANGED <<updateErrors, configStale, currentConfig>>
    /\ UNCHANGED <<store, updates, configLoaded, lastApply>>

Switch(p) ==
    /\ pc[p] = "switch"
    /\ LET case == SwitchCase(loc[p].res)
       IN  IF case \in {"retry", "noRetry"}
           THEN /\ updateErrors' = updateErrors + 1
                /\ configStale' = 1
                /\ Finish(p, loc[p], ErrorReturn(case),
                          IF case = "retry" THEN "errorRetry" ELSE "errorNoRetry")
           ELSE /\ Goto(p, loc[p], IF case = "reload" THEN "forceReload" ELSE "adopt")
                /\ UNCHANGED <<updateErrors, configStale>>
    /\ UNCHANGED <<store, currentConfig, updates, configLoaded, lastApply>>

\* r.ForceReload()
ForceReload(p) ==
    /\ pc[p] = "forceReload"
    /\ Goto(p, [loc[p] EXCEPT !.forceReloads = @ + 1], "adopt")
    /\ UNCHANGED <<store, currentConfig, metrics, lastApply>>

\* r.currentConfig = cfg
AdoptOnlyFirst(p) ==
    /\ pc[p] = "adopt"
    /\ currentConfig' = IF currentConfig = NilConfig THEN loc[p].cfg ELSE currentConfig
    /\ Goto(p, loc[p], "setLoaded")
    /\ UNCHANGED <<store, metrics, lastApply>>

Adopt(p) ==
    /\ pc[p] = "adopt"
    /\ currentConfig' = loc[p].cfg
    /\ Goto(p, loc[p], "setLoaded")
    /\ UNCHANGED <<store, metrics, lastApply>>

\* configLoaded.Set(1)
SetLoadedForgotten(p) ==
    /\ pc[p] = "setLoaded"
    /\ Goto(p, loc[p], "setStale")
    /\ UNCHANGED <<store, currentConfig, metrics, lastApply>>

SetLoaded(p) ==
    /\ pc[p] = "setLoaded"
    /\ configLoaded' = 1
    /\ Goto(p, loc[p], "setStale")
    /\ UNCHANGED <<store, currentConfig, updates, updateErrors, configStale,
                   lastApply>>

\* configStale.Set(0), and the invocation returns no error.
SetStaleForgotten(p) ==
    /\ pc[p] = "setStale"
    /\ Finish(p, loc[p], "nil", "adopted")
    /\ UNCHANGED <<store, currentConfig, metrics, lastApply>>

SetStale(p) ==
    /\ pc[p] = "setStale"
    /\ configStale' = 0
    /\ Finish(p, loc[p], "nil", "adopted")
    /\ UNCHANGED <<store, currentConfig, updates, updateErrors, configLoaded,
                   lastApply>>

\* The caller has the result; the invocation's locals are gone.
Return(p) ==
    /\ pc[p] = "done"
    /\ pc' = [pc EXCEPT ![p] = "idle"]
    /\ loc' = [loc EXCEPT ![p] = IdleLocals]
    /\ lastApply' =
          IF loc[p].handlerCalls = 0 THEN lastApply
          ELSE [called |-> TRUE, res |-> loc[p].res, fetched |-> Fetched(loc[p]),
                arg |-> loc[p].handlerArg]
    /\ UNCHANGED <<store, currentConfig, metrics>>

Step(p) ==
    \/ ListAddressPools(p)
    \/ ListIPAddressPools(p)
    \/ ListCommunities(p)
    \/ ListNamespaces(p)
    \/ GetLegacy(p)
    \/ Translate(p)
    \/ Compare(p)
    \/ Handler(p)
    \/ Switch(p)
    \/ ForceReload(p)
    \/ Adopt(p)
    \/ SetLoaded(p)
    \/ SetStale(p)
    \/ Return(p)

Next ==
    /\ \/ StoreChange
       \/ \E p \in SerialProcs : Start(p) \/ Step(p)
    /\ UNCHANGED calc

\* Reconcile invoked one at a time.
Spec == Init /\ [][Next]_vars

(***************************************************************************)
(* Properties of a finished invocation.  They are stated on the state in   *)
(* which Reconcile has returned (pc = "done"), against what the invocation *)
(* found when it was entered (loc.pre).                                    *)
(***************************************************************************)
Done(p) == pc[p] = "done"

\* Fetch, decode, translation and build all succeeded.
Built(p) == loc[p].end \in {"unchanged", "errorRetry", "errorNoRetry", "adopted"}

\* The built configuration equals the one last applied.
BuiltEqual(p) == Built(p) /\ loc[p].cfg = loc[p].pre.currentConfig

\* The Handler was reached and returned res.
HandlerReturned(p, res) == loc[p].handlerCalls = 1 /\ loc[p].res = res

HandlerSucceeded(p) ==
    /\ loc[p].handlerCalls = 1
    /\ loc[p].res \notin {SyncStateError, SyncStateErrorNoRetry, SyncStateReprocessAll}

\* The last Handler call before this invocation adopted its configuration.
LastApplyAdopted ==
    lastApply.called /\ lastApply.res \notin {SyncStateError, SyncStateErrorNoRetry}

LastApplyFailed ==
    lastApply.called /\ lastApply.res \in {SyncStateError, SyncStateErrorNoRetry}

\* The invocation read from the store what that earlier invocation had read.
SameUpstream(p) ==
    loc[p].end # "fetchError" /\ Fetched(loc[p]) = lastApply.fetched

\* C1: a cycle whose built config equals lastApplied calls neither the
\* Handler nor ForceReload, leaves lastApplied alone and returns no error;
\* and once a config is adopted, a cycle that reads the same upstream state
\* does not call the Handler.
C1_Idempotent ==
    \A p \in Procs : Done(p) =>
        /\ BuiltEqual(p) =>
              /\ loc[p].handlerCalls = 0
              /\ loc[p].forceReloads = 0
              /\ currentConfig = loc[p].pre.currentConfig
              /\ loc[p].ret = "nil"
        /\ (LastApplyAdopted /\ SameUpstream(p)) =>
              /\ loc[p].handlerCalls = 0
              /\ loc[p].end = "unchanged"

C1_Witness ==
    \E p \in Procs :
        /\ Done(p) /\ BuiltEqual(p) /\ LastApplyAdopted /\ SameUpstream(p)
        /\ loc[p].pre.updates >= 2

\* C2 as stated: a cycle whose built config equals lastApplied changes no
\* metric, the reconcile-attempt counter included.
C2_NoMetricChanges ==
    \A p \in Procs : (Done(p) /\ BuiltEqual(p)) =>
        /\ updates = loc[p].pre.updates
        /\ updateErrors = loc[p].pre.updateErrors
        /\ configStale = loc[p].pre.configStale
        /\ configLoaded = loc[p].pre.configLoaded

\* C2 amended: such a cycle adds exactly one to the reconcile-attempt counter
\* and leaves the apply-error counter and the two gauges as they were.
C2_OnlyAttemptCounted ==
    \A p \in Procs : (Done(p) /\ BuiltEqual(p)) =>
        /\ updates = loc[p].pre.updates + 1
        /\ updateErrors = loc[p].pre.updateErrors
        /\ configStale = loc[p].pre.configStale
        /\ configLoaded = loc[p].pre.configLoaded

C2_Witness ==
    \E p \in Procs :
        /\ Done(p) /\ BuiltEqual(p)
        /\ loc[p].pre.configStale = 1 /\ loc[p].pre.updateErrors = 1

\* C3: when the Handler returns Success (anything but the three other
\* outcomes) the cycle ends with lastApplied = the built config, loaded = 1,
\* stale = 0, the apply-error counter unchanged, no ForceReload, no error.
C3_Success ==
    \A p \in Procs : (Done(p) /\ HandlerSucceeded(p)) =>
        /\ loc[p].cfg # loc[p].pre.currentConfig
        /\ currentConfig = loc[p].cfg
        /\ configLoaded = 1
        /\ configStale = 0
        /\ updateErrors = loc[p].pre.updateErrors
        /\ loc[p].forceReloads = 0
        /\ loc[p].ret = "nil"

C3_Witness ==
    \E p \in Procs :
        /\ Done(p) /\ HandlerReturned(p, SyncStateSuccess)
        /\ loc[p].pre.configStale = 1 /\ loc[p].pre.configLoaded = 0

\* C4: when the Handler returns ErrorRetry the cycle adds one to the
\* apply-error counter, sets stale = 1, leaves lastApplied and the loaded
\* gauge alone, does not call ForceReload and returns an error.
C4_ErrorRetry ==
    \A p \in Procs : (Done(p) /\ HandlerReturned(p, SyncStateError)) =>
        /\ updateErrors = loc[p].pre.updateErrors + 1
        /\ configStale = 1
        /\ currentConfig = loc[p].pre.currentConfig
        /\ configLoaded = loc[p].pre.configLoaded
        /\ loc[p].forceReloads = 0
        /\ loc[p].ret = "errRetry"

C4_Witness ==
    \E p \in Procs :
        /\ Done(p) /\ HandlerReturned(p, SyncStateError)
        /\ loc[p].pre.configStale = 0 /\ loc[p].pre.configLoaded = 1

\* C5: when the Handler returns ErrorNoRetry the cycle adds one to the
\* apply-error counter, sets stale = 1, leaves lastApplied and the loaded
\* gauge alone, does not call ForceReload and returns no error.
C5_ErrorNoRetry ==
    \A p \in Procs : (Done(p) /\ HandlerReturned(p, SyncStateErrorNoRetry)) =>
        /\ updateErrors = loc[p].pre.updateErrors + 1
        /\ configStale = 1
        /\ currentConfig = loc[p].pre.currentConfig
        /\ configLoaded = loc[p].pre.configLoaded
        /\ loc[p].forceReloads = 0
        /\ loc[p].ret = "nil"

C5_Witness ==
    \E p \in Procs :
        /\ Done(p) /\ HandlerReturned(p, SyncStateErrorNoRetry)
        /\ loc[p].pre.configStale = 0 /\ loc[p].pre.configLoaded = 1

\* C6: after a cycle whose Handler call returned ErrorRetry or ErrorNoRetry,
\* a cycle that reads the same upstream state finds the config different
\* from lastApplied and calls the Handler once more, with the same pool set.
C6_FailedConfigRetried ==
    \A p \in Procs : (Done(p) /\ LastApplyFailed /\ SameUpstream(p)) =>
        /\ loc[p].cfg # loc[p].pre.currentConfig
        /\ loc[p].handlerCalls = 1
        /\ loc[p].handlerArg = lastApply.arg

C6_Witness ==
    \E p \in Procs :
        /\ Done(p) /\ SameUpstream(p) /\ loc[p].handlerCalls = 1
        /\ lastApply.called /\ lastApply.res = SyncStateErrorNoRetry

\* C7: ForceReload is called only after the Handler returned ReprocessAll,
\* then exactly once, while lastApplied and the gauges are still those the
\* cycle found; the cycle then ends as for Success.
C7_ReprocessAll ==
    \A p \in Procs :
        /\ loc[p].forceReloads \in {0, 1}
        /\ loc[p].forceReloads = 1 => HandlerReturned(p, SyncStateReprocessAll)
        /\ (pc[p] = "adopt" /\ loc[p].forceReloads = 1) =>
              /\ currentConfig = loc[p].pre.currentConfig
              /\ currentConfig # loc[p].cfg
              /\ configLoaded = loc[p].pre.configLoaded
              /\ configStale = loc[p].pre.configStale
        /\ (Done(p) /\ HandlerReturned(p, SyncStateReprocessAll)) =>
              /\ loc[p].forceReloads = 1
              /\ currentConfig = loc[p].cfg
              /\ configLoaded = 1
              /\ configStale = 0
              /\ updateErrors = loc[p].pre.updateErrors
              /\ loc[p].ret = "nil"

C7_Witness ==
    \E p \in Procs :
        /\ Done(p) /\ HandlerReturned(p, SyncStateReprocessAll)
        /\ loc[p].forceReloads = 1
        /\ loc[p].pre.configStale = 1 /\ loc[p].pre.configLoaded = 0

\* C8: when the build fails the cycle sets stale = 1, leaves the loaded
\* gauge, the apply-error counter and lastApplied alone, calls neither the
\* Handler nor ForceReload and returns no error.
C8_BuildFailure ==
    \A p \in Procs : (Done(p) /\ loc[p].end = "buildError") =>
        /\ configStale = 1
        /\ configLoaded = loc[p].pre.configLoaded
        /\ updateErrors = loc[p].pre.updateErrors
        /\ currentConfig = loc[p].pre.currentConfig
        /\ loc[p].handlerCalls = 0
        /\ loc[p].forceReloads = 0
        /\ loc[p].ret = "nil"

C8_Witness ==
    \E p \in Procs :
        /\ Done(p) /\ loc[p].end = "buildError"
        /\ loc[p].pre.configStale = 0 /\ loc[p].pre.configLoaded = 1

\* The configuration built from the listed resources alone.
WithoutLegacy(p) ==
    toConfig(AddLegacyResources(ListedResources(loc[p]), EmptyResources))

\* C9: a failed list call, or a failed get with an error other than
\* NotFound, ends the cycle there with the error returned and lastApplied,
\* the gauges and the apply-error counter untouched, nothing built and the
\* Handler not called; after NotFound the cycle goes on with an empty legacy
\* configuration.
C9_FetchErrors ==
    \A p \in Procs :
        /\ (Done(p) /\ loc[p].end = "fetchError") =>
              /\ loc[p].ret = "err"
              /\ currentConfig = loc[p].pre.currentConfig
              /\ configStale = loc[p].pre.configStale
              /\ configLoaded = loc[p].pre.configLoaded
              /\ updateErrors = loc[p].pre.updateErrors
              /\ loc[p].cfg = NilConfig
              /\ loc[p].handlerCalls = 0
        /\ loc[p].getResult = "error" => (Done(p) /\ loc[p].end = "fetchError")
        /\ loc[p].getResult = "NotFound" =>
              /\ loc[p].legacyConfig = ZeroConfigMap
              /\ Done(p) =>
                    /\ loc[p].end \in {"buildError", "unchanged", "errorRetry",
                                       "errorNoRetry", "adopted"}
                    /\ Built(p) => loc[p].cfg = WithoutLegacy(p).cfg

C9_Witness ==
    \E p \in Procs :
        /\ Done(p) /\ loc[p].end = "fetchError" /\ loc[p].getResult = "error"
        /\ loc[p].pre.configLoaded = 1 /\ loc[p].pre.configStale = 0
        /\ store.legacy.exists

\* C10: Reconcile returns an error exactly when the cycle ended by a fetch
\* error, a decode error, a translation error or the Handler's ErrorRetry.
C10_ErrorPropagation ==
    \A p \in Procs : Done(p) =>
        (loc[p].ret # "nil" <=>
            \/ loc[p].end \in {"fetchError", "decodeError", "translateError"}
            \/ HandlerReturned(p, SyncStateError))

C10_Witness ==
    \E p \in Procs :
        /\ Done(p) /\ loc[p].end = "translateError" /\ loc[p].ret = "err"
        /\ loc[p].pre.configLoaded = 1

(***************************************************************************)
(* The conversion functions on their own.  The reconciler is at rest; calc *)
(* holds the arguments of the calls, drawn from bounded sets, and the      *)
(* results as the calls are made.                                          *)
(***************************************************************************)
\* Longest sequence of a resource set given to addResources.
MaxLen == 1

SeqsUpTo(S, n) == UNION {[1..k -> S] : k \in 0..n}

ReconcilerAtRest ==
    /\ store = [addressPools |-> <<>>, ipAddressPools |-> <<>>, communities |-> <<>>,
                namespaces |-> <<>>, legacy |-> [exists |-> FALSE, cm |-> ZeroConfigMap]]
    /\ currentConfig = NilConfig
    /\ updates = 0
    /\ updateErrors = 0
    /\ configStale = 0
    /\ configLoaded = 0
    /\ pc = [p \in Procs |-> "idle"]
    /\ loc = [p \in Procs |-> IdleLocals]
    /\ lastApply = NoApply

reconciler ==
    <<store, currentConfig, updates, updateErrors, configStale, configLoaded,
      pc, loc, lastApply>>

(***************************************************************************)
(* addResources.  Every call is made on values of its own: the code also   *)
(* overwrites *first with the result, which the caller of a second call    *)
(* with the same first would see.                                          *)
(***************************************************************************)
\* The objects named by ns, as objects of one kind.
Objects(kind, ns) == [i \in 1..Len(ns) |-> [kind |-> kind, Name |-> ns[i]]]

SecretMaps ==
    {NilMap,
     [isNil |-> FALSE, m |-> <<>>],
     [isNil |-> FALSE, m |-> [k \in {"k"} |-> "first"]],
     [isNil |-> FALSE, m |-> [k \in {"k", "j"} |-> "second"]]}

ResourceSets ==
    {[Pools |-> Objects("IPAddressPool", ns),
      Peers |-> Objects("BGPPeer", ns),
      BFDProfiles |-> Objects("BFDProfile", ns),
      BGPAdvs |-> Objects("BGPAdvertisement", ns),
      L2Advs |-> Objects("L2Advertisement", ns),
      LegacyAddressPools |-> Objects("AddressPool", ns),
      Communities |-> Objects("Community", ns),
      PasswordSecrets |-> m,
      Nodes |-> Objects("Node", ns),
      Namespaces |-> Objects("Namespace", ns)] :
        ns \in SeqsUpTo({"a", "b"}, MaxLen), m \in SecretMaps}

InitMerge ==
    /\ ReconcilerAtRest
    /\ \E A, B, C \in ResourceSets :
          calc = [op |-> "addResources", step |-> "args", A |-> A, B |-> B, C |-> C,
                  AB |-> EmptyResources, BC |-> EmptyResources,
                  AB_C |-> EmptyResources, A_BC |-> EmptyResources]

MergeAB ==
    /\ calc.step = "args"
    /\ calc' = [calc EXCEPT !.step = "AB", !.AB = addResources(calc.A, calc.B)]
    /\ UNCHANGED reconciler

MergeBC ==
    /\ calc.step = "AB"
    /\ calc' = [calc EXCEPT !.step = "BC", !.BC = addResources(calc.B, calc.C)]
    /\ UNCHANGED reconciler

MergeAB_C ==
    /\ calc.step = "BC"
    /\ calc' = [calc EXCEPT !.step = "AB_C", !.AB_C = addResources(calc.AB, calc.C)]
    /\ UNCHANGED reconciler

MergeA_BC ==
    /\ calc.step = "AB_C"
    /\ calc' = [calc EXCEPT !.step = "A_BC", !.A_BC = addResources(calc.A, calc.BC)]
    /\ UNCHANGED reconciler

NextMerge == MergeAB \/ MergeBC \/ MergeAB_C \/ MergeA_BC

MergeSpec == InitMerge /\ [][NextMerge]_vars

\* C11: the secret mapping of merge(first, second): with both mappings
\* allocated it has the keys of either side and second's value wins; with
\* second's unallocated it is first's; with first's unallocated it is
\* second's, unchanged.
C11_SecretMerge ==
    calc.step # "args" =>
        LET f == calc.A.PasswordSecrets
            s == calc.B.PasswordSecrets
            r == calc.AB.PasswordSecrets
        IN  /\ (~f.isNil /\ ~s.isNil) =>
                  /\ ~r.isNil
                  /\ DOMAIN r.m = DOMAIN f.m \cup DOMAIN s.m
                  /\ \A k \in DOMAIN r.m :
                        r.m[k] = IF k \in DOMAIN s.m THEN s.m[k] ELSE f.m[k]
            /\ s.isNil => r = f
            /\ f.isNil => r = s

\* The ordered-sequence fields of a resource set.
SeqFields(r) ==
    <<r.Pools, r.Peers, r.BFDProfiles, r.BGPAdvs, r.L2Advs, r.LegacyAddressPools,
      r.Communities, r.Nodes, r.Namespaces>>

MaxPools == 2

AdvX ==
    [AggregationLength |-> 24, AggregationLengthV6 |-> 64, LocalPref |-> 100,
     Communities |-> <<"no-export", "65000:1">>]
AdvY ==
    [AggregationLength |-> 32, AggregationLengthV6 |-> 128, LocalPref |-> 0,
     Communities |-> <<>>]

AdvLists == {<<>>, <<AdvX>>, <<AdvY>>, <<AdvX, AdvY>>, <<AdvY, AdvX>>, <<AdvX, AdvX>>}

LegacyPools ==
    {[LegacyPool(name, protocol) EXCEPT !.BGPAdvertisements = advs] :
        name \in {"a", "b"}, protocol \in {Layer2, BGP}, advs \in AdvLists}

InitBgp ==
    /\ ReconcilerAtRest
    /\ \E pools \in SeqsUpTo(LegacyPools, MaxPools) :
          calc = [op |-> "bgpAdvertisementsFor", step |-> "args",
                  cf |-> [EmptyConfigFile EXCEPT !.Pools = pools], out |-> <<>>]

BgpAdvertisements ==
    /\ calc.step = "args"
    /\ calc' = [calc EXCEPT !.step = "done", !.out = bgpAdvertisementsFor(calc.cf)]
    /\ UNCHANGED reconciler

BgpSpec == InitBgp /\ [][BgpAdvertisements]_vars

\* The advertisements a pool stands for: its explicit ones, or one for a bgp
\* pool without any, or none.
AdvCount(ap) ==
    IF Len(ap.BGPAdvertisements) > 0 THEN Len(ap.BGPAdvertisements)
    ELSE IF ap.Protocol = BGP THEN 1 ELSE 0

\* The advertisements of the pools before the k-th.
RECURSIVE AdvsBefore(_, _)
AdvsBefore(pools, k) ==
    IF k <= 1 THEN 0 ELSE AdvsBefore(pools, k - 1) + AdvCount(pools[k - 1])

\* C13: the output holds, pool by pool in input order, one advertisement per
\* explicit spec in spec order, or one empty advertisement for a bgp pool
\* without specs, or nothing for a layer2 pool without specs; each refers to
\* its pool alone; the k-th of the output is named bgpadvertisement<k>,
\* counted from 1 through all pools, so the names are pairwise distinct.
C13_BgpAdvertisements ==
    calc.step = "done" =>
        LET pools == calc.cf.Pools
            out == calc.out
        IN  /\ Len(out) = AdvsBefore(pools, Len(pools) + 1)
            /\ \A k \in 1..Len(pools) : \A j \in 1..AdvCount(pools[k]) :
                  LET adv == out[AdvsBefore(pools, k) + j]
                      specs == pools[k].BGPAdvertisements
                  IN  /\ adv.Name = <<"bgpadvertisement", AdvsBefore(pools, k) + j>>
                      /\ adv.IPAddressPools = <<pools[k].Name>>
                      /\ IF Len(specs) > 0
                         THEN /\ adv.Communities = specs[j].Communities
                              /\ adv.AggregationLength = specs[j].AggregationLength
                              /\ adv.AggregationLengthV6 = specs[j].AggregationLengthV6
                              /\ adv.LocalPref = specs[j].LocalPref
                         ELSE /\ adv.Communities = <<>>
                              /\ adv.AggregationLength = 0
                              /\ adv.AggregationLengthV6 = 0
                              /\ adv.LocalPref = 0
            /\ \A i \in 1..Len(out) : out[i].Name = <<"bgpadvertisement", i>>
            /\ \A i, j \in 1..Len(out) : i # j => out[i].Name # out[j].Name

C13_Witness ==
    /\ calc.op = "bgpAdvertisementsFor" /\ calc.step = "done"
    /\ Len(calc.cf.Pools) = 2
    /\ calc.cf.Pools[1].BGPAdvertisements = <<AdvX, AdvY>>
    /\ calc.cf.Pools[2].Protocol = BGP
    /\ calc.cf.Pools[2].BGPAdvertisements = <<>>
    /\ calc.cf.Pools[2].Name = calc.cf.Pools[1].Name
    /\ Len(calc.out) = 3
    /\ calc.out[3].Name = <<"bgpadvertisement", 3>>

(***************************************************************************)
(* parseHoldTime.                                                          *)
(***************************************************************************)
\* Longest duration, in milliseconds either side of zero, given as a text.
MaxHoldMs == 5000

HoldTexts == {EmptyText, BadText} \cup {DurText(ms) : ms \in -MaxHoldMs..MaxHoldMs}

InitHold ==
    /\ ReconcilerAtRest
    /\ \E ht \in HoldTexts :
          calc = [op |-> "parseHoldTime", step |-> "args", ht |-> ht,
                  out |-> [err |-> FALSE, d |-> 0]]

ParseHold ==
    /\ calc.step = "args"
    /\ calc' = [calc EXCEPT !.step = "done", !.out = parseHoldTime(calc.ht)]
    /\ UNCHANGED reconciler

HoldSpec == InitHold /\ [][ParseHold]_vars

\* The whole seconds of ms milliseconds, fractions discarded.
TruncatedSeconds(ms) ==
    CHOOSE q \in -(MaxHoldMs \div Second + 1)..(MaxHoldMs \div Second + 1) :
        /\ (ms >= 0) => (q >= 0 /\ q * 1000 <= ms /\ ms < (q + 1) * 1000)
        /\ (ms < 0) => (q <= 0 /\ q * 1000 >= ms /\ ms > (q - 1) * 1000)

\* C14: "" gives 90 s; a parseable duration is cut to whole seconds toward
\* zero and is accepted, with that value, exactly when the whole seconds are
\* 0 or at least 3; so a result is 0 or >= 3 whole seconds, and a positive
\* duration under one second is accepted as 0.
C14_HoldTime ==
    calc.step = "done" =>
        /\ calc.ht.kind = "empty" => calc.out = [err |-> FALSE, d |-> 90 * 1000]
        /\ calc.ht.kind = "bad" => calc.out.err
        /\ calc.ht.kind = "dur" =>
              LET t == TruncatedSeconds(calc.ht.ms)
              IN  /\ calc.out.err <=> ~(t = 0 \/ t >= 3)
                  /\ ~calc.out.err => calc.out.d = t * 1000
        /\ ~calc.out.err =>
              /\ calc.out.d % 1000 = 0
              /\ calc.out.d = 0 \/ calc.out.d >= 3 * 1000
        /\ (calc.ht.kind = "dur" /\ calc.ht.ms > 0 /\ calc.ht.ms < 1000) =>
              calc.out = [err |-> FALSE, d |-> 0]

C14_Witness ==
    /\ calc.op = "parseHoldTime" /\ calc.step = "done"
    /\ calc.ht = DurText(-999)
    /\ calc.out = [err |-> FALSE, d |-> 0]

(***************************************************************************)
(* communitiesFor.  The order in which Go ranges over a map is not fixed:  *)
(* every order is possible.                                                *)
(***************************************************************************)
\* "B", "a", "ab", "b"
AliasNames == {<<66>>, <<97>>, <<97, 98>>, <<98>>}

AliasMaps == UNION {[S -> {"65000:100", "65000:200"}] : S \in SUBSET AliasNames}

InitCommunities ==
    /\ ReconcilerAtRest
    /\ \E m \in AliasMaps :
          calc = [op |-> "communitiesFor", step |-> "args",
                  cf |-> [EmptyConfigFile EXCEPT !.BGPCommunities = m],
                  order |-> <<>>, out |-> <<>>]

Communities ==
    /\ calc.step = "args"
    /\ \E order \in Orders(DOMAIN calc.cf.BGPCommunities) :
          calc' = [calc EXCEPT !.step = "done", !.order = order,
                               !.out = communitiesForRange(calc.cf, order)]
    /\ UNCHANGED reconciler

CommunitiesSpec == InitCommunities /\ [][Communities]_vars

\* C15: an empty alias mapping gives no community resource; any other gives
\* exactly one, named "communities", whose aliases are the (name, value)
\* pairs of the mapping, each once, in strictly ascending order of name,
\* whatever the order in which the mapping was iterated.
C15_Communities ==
    calc.step = "done" =>
        LET m == calc.cf.BGPCommunities
        IN  IF DOMAIN m = {} THEN calc.out = <<>>
            ELSE /\ Len(calc.out) = 1
                 /\ calc.out[1].Name = "communities"
                 /\ LET aliases == calc.out[1].Communities
                    IN  /\ Len(aliases) = Cardinality(DOMAIN m)
                        /\ \A k \in DOMAIN m :
                              \E i \in 1..Len(aliases) :
                                  /\ aliases[i] = [Name |-> k, Value |-> m[k]]
                                  /\ \A j \in 1..Len(aliases) :
                                        aliases[j].Name = k => j = i
                        /\ \A i, j \in 1..Len(aliases) :
                              i < j => StrLess(aliases[i].Name, aliases[j].Name)
                 /\ calc.out = communitiesFor(calc.cf)

C15_Witness ==
    /\ calc.op = "communitiesFor" /\ calc.step = "done"
    /\ calc.order = <<<<98>>, <<97, 98>>, <<97>>, <<66>>>>
    /\ Len(calc.out) = 1
    /\ calc.out[1].Communities[1].Name = <<66>>
    /\ calc.out[1].Communities[3].Name = <<97, 98>>

(***************************************************************************)
(* r.currentConfig over a sequence of invocations.                         *)
(***************************************************************************)
\* C16: lastApplied changes only in a cycle that built a config different
\* from it, called the Handler and got Success (the default outcome of the
\* switch) or ReprocessAll, and its new value is the config built in that
\* cycle; after every other cycle, and between cycles, it is what it was.
C16_LastApplied ==
    /\ [](\A p \in Procs : Done(p) =>
            IF loc[p].end = "adopted"
            THEN /\ loc[p].cfg # loc[p].pre.currentConfig
                 /\ loc[p].handlerCalls = 1
                 /\ loc[p].res \notin {SyncStateError, SyncStateErrorNoRetry}
                 /\ currentConfig = loc[p].cfg
            ELSE currentConfig = loc[p].pre.currentConfig)
    /\ [][currentConfig' # currentConfig =>
            \E p \in Procs : /\ pc[p] = "adopt" /\ pc'[p] = "setLoaded"
                             /\ loc[p].handlerCalls = 1
                             /\ currentConfig' = loc[p].cfg]_vars

C16_Witness ==
    \E p \in Procs :
        /\ Done(p) /\ HandlerReturned(p, SyncStateReprocessAll)
        /\ loc[p].pre.currentConfig # NilConfig
        /\ currentConfig # loc[p].pre.currentConfig

\* No invocation is between its entry and its return.
BetweenCycles == \A p \in Procs : pc[p] \in {"idle", "done"}

C20_StaleReset ==
    \A p \in Procs : (Done(p) /\ BuiltEqual(p)) => configStale = 0

(***************************************************************************)
(* Convergence.  The environment is free (the store changes, fetches fail, *)
(* the Handler returns errors) until the attempt counter reaches MaxCycles;*)
(* from the invocation that brings it there on, the store stays as it is,  *)
(* fetches succeed and the Handler returns no error.  Invocations go on    *)
(* being triggered; the counter is held at MaxCycles.                      *)
(***************************************************************************)
ConvergeStores ==
    {s \in StoreStates :
        \/ s.ipAddressPools = <<PoolA>> /\ ~s.legacy.exists
        \/ s.ipAddressPools = <<PoolA>> /\ s.legacy.cm = ConfigMapOf(DocA)
        \/ s.ipAddressPools = <<>> /\ s.legacy.cm = ConfigMapOf(DocB)}

Settled == updates = MaxCycles

InitConverge == Init /\ store \in ConvergeStores

StoreChangeEarly ==
    /\ ~Settled
    /\ StoreChange
    /\ store' \in ConvergeStores

\* Reconcile is entered again, the counter at its bound.
EnterSettled(p) ==
    /\ \A q \in Procs : pc[q] = "idle"
    /\ Settled
    /\ Goto(p, [IdleLocals EXCEPT !.pre = Observed], "listAddressPools")
    /\ UNCHANGED <<store, currentConfig, metrics, lastApply>>

\* Once settled, no fetch fails and the Handler returns no error.
StepSettling(p) ==
    /\ Step(p)
    /\ Settled =>
          /\ loc'[p].end # "fetchError"
          /\ pc[p] = "handler" =>
                loc'[p].res \notin {SyncStateError, SyncStateErrorNoRetry}

\* The caller invokes Reconcile: on a change notification, or again after a
\* returned error.
Trigger == \E p \in SerialProcs : Start(p) \/ EnterSettled(p)

Cycle == Trigger \/ \E p \in SerialProcs : StepSettling(p)

NextConverge ==
    /\ StoreChangeEarly \/ Cycle
    /\ UNCHANGED calc

\* Triggering is weakly fair, and an invocation under way runs on: no step
\* of Reconcile waits for anything but the fetches.
ConvergeSpec ==
    /\ InitConverge
    /\ [][NextConverge]_vars
    /\ WF_vars(Trigger /\ UNCHANGED calc)
    /\ []<><<Cycle /\ UNCHANGED calc>>_vars

\* What an invocation builds from the store s when every fetch succeeds.
BuiltFrom(s) ==
    LET l == [IdleLocals EXCEPT
                 !.addressPools = s.addressPools,
                 !.ipAddressPools = s.ipAddressPools,
                 !.communities = s.communities,
                 !.namespaces = s.namespaces,
                 !.legacyConfig = IF s.legacy.exists THEN s.legacy.cm
                                  ELSE ZeroConfigMap]
        legacyCF == DecodeLegacyCM(l.legacyConfig)
        legacyResources == ResourcesFor(legacyCF.cf)
        built == toConfig(AddLegacyResources(ListedResources(l), legacyResources.res))
    IN  [err |-> legacyCF.err \/ legacyResources.err \/ built.err, cfg |-> built.cfg]

\* The store has stopped changing at a state that decodes, translates and
\* builds.
UpstreamSettled == Settled /\ ~BuiltFrom(store).err

\* lastApplied is the config of the upstream state and the gauges say so.
Converged ==
    /\ currentConfig = BuiltFrom(store).cfg
    /\ configStale = 0
    /\ configLoaded = 1
    /\ \A p \in Procs : pc[p] # "handler"

\* C17: if the upstream stops changing at a state that fetches, decodes,
\* translates and builds, cycles keep being triggered and the Handler stops
\* returning errors, then from some point on lastApplied is the config built
\* from that state, stale = 0, loaded = 1 and the Handler is not called.
C17_Convergence == <>[]UpstreamSettled => <>[]Converged

(***************************************************************************)
(* Reconcile invoked without serialization: two invocations interleave     *)
(* step by step.  The store moves forward through its versions, so that of *)
(* two snapshots the older is the one of the earlier version.  calc        *)
(* records which invocations ran while another was under way.              *)
(***************************************************************************)
MaxInvocations == 2

StoreVersions ==
    <<CHOOSE s \in StoreStates : s.ipAddressPools = <<PoolA>> /\ ~s.legacy.exists,
      CHOOSE s \in StoreStates : s.ipAddressPools = <<>> /\ s.legacy.cm = ConfigMapOf(DocB)>>

Running(p) == pc[p] \notin {"idle", "done"}

InitConcurrent ==
    /\ store = StoreVersions[1]
    /\ currentConfig = NilConfig
    /\ updates = 0
    /\ updateErrors = 0
    /\ configStale = 0
    /\ configLoaded = 0
    /\ pc = [p \in Procs |-> "idle"]
    /\ loc = [p \in Procs |-> IdleLocals]
    /\ lastApply = NoApply
    /\ calc = [op |-> "Reconcile", overlapped |-> [p \in Procs |-> FALSE]]

StoreAdvance ==
    /\ \E i \in 1..(Len(StoreVersions) - 1) :
          store = StoreVersions[i] /\ store' = StoreVersions[i + 1]
    /\ UNCHANGED <<currentConfig, metrics, pc, loc, lastApply, calc>>

\* Reconcile is entered whether or not another invocation is under way; the
\* caller has taken the result of every finished one.
EnterConcurrent(p) ==
    /\ \A q \in Procs : pc[q] # "done"
    /\ updates < MaxInvocations
    /\ Enter(p)
    /\ calc' = [calc EXCEPT !.overlapped =
                   [q \in Procs |->
                       IF q = p THEN \E r \in Procs \ {p} : Running(r)
                       ELSE IF Running(q) THEN TRUE
                       ELSE calc.overlapped[q]]]

StepConcurrent(p) == Step(p) /\ UNCHANGED calc

NextConcurrent ==
    \/ StoreAdvance
    \/ \E p \in Procs : EnterConcurrent(p) \/ StepConcurrent(p)

ConcurrentSpec == InitConcurrent /\ [][NextConcurrent]_vars

\* The invocation fetched all it read from version i of the store.
FetchedVersion(p, i) ==
    Fetched(loc[p]) =
        [addressPools |-> StoreVersions[i].addressPools,
         ipAddressPools |-> StoreVersions[i].ipAddressPools,
         communities |-> StoreVersions[i].communities,
         namespaces |-> StoreVersions[i].namespaces,
         legacyConfig |-> IF StoreVersions[i].legacy.exists
                          THEN StoreVersions[i].legacy.cm ELSE ZeroConfigMap]

\* C18: an invocation that adopted its config and did not overlap another
\* leaves lastApplied equal to the config built from what it fetched, the
\* most recently fetched snapshot; when two invocations overlap, both
\* adopting, lastApplied is the config of one of them, and the order of
\* their fetches does not decide which (the witness).
C18_AdoptionOrder ==
    /\ \A p \in Procs :
          (Done(p) /\ loc[p].end = "adopted" /\ ~calc.overlapped[p]) =>
              /\ currentConfig = loc[p].cfg
              /\ \A i \in 1..Len(StoreVersions) :
                    FetchedVersion(p, i) =>
                        currentConfig = BuiltFrom(StoreVersions[i]).cfg
    /\ (\A p \in Procs : Done(p) /\ loc[p].end = "adopted") =>
          \E p \in Procs : currentConfig = loc[p].cfg

\* Both invocations got Success; the first fetched the older version, the
\* second the newer; lastApplied is the older one's config.
C18_Witness ==
    /\ \A p \in Procs : Done(p) /\ HandlerReturned(p, SyncStateSuccess)
    /\ FetchedVersion(1, 1) /\ FetchedVersion(2, 2)
    /\ loc[1].cfg # loc[2].cfg
    /\ currentConfig = loc[1].cfg
    /\ currentConfig = BuiltFrom(StoreVersions[1]).cfg

====
